---- MODULE Spec2Model ----
(***************************************************************************)
(* Model of DiskDriveDaysPredictor (Python 2):                             *)
(*   Code/utility/ProcessData.py        ProcessData                        *)
(*   Code/utility/GetDriveAttributes.py GetDriveAttributes                 *)
(*                                                                         *)
(* Three specifications share the module:                                  *)
(*   Spec      - __save_csv_file / the failure-window labeler              *)
(*               (__update_data_to_include_classfication_output_labels)    *)
(*               on one serial number's rows;                              *)
(*   SpecMain  - main's scan of the CSV file list for one drive model and  *)
(*               the per-serial accumulation, then the save;               *)
(*   SpecAttrs - GetDriveAttributes.__manufacturer_reported_params.        *)
(*                                                                         *)
(* A Python list row is a TLA+ sequence of cells.  A date cell is a record *)
(* [k, m, d, pad]: k = "str" is the text "2015-MM-DD" (pad) or "2015-M-D"  *)
(* (~pad) with month m and day d as written; k = "datetime" is a datetime  *)
(* object whose day-of-year ordinal is d; k = "None" is Python's None.     *)
(* Names such as drive models are sequences of characters so that lower()  *)
(* and startswith() are computed, not assumed.                             *)
(***************************************************************************)
EXTENDS Integers, Sequences, FiniteSets, TLC

VARIABLES
    \* ---- Spec: one call chain of __save_csv_file / the labeler
    header,        \* the caller's header list
    sno_data,      \* the caller's list of rows (the row objects are shared with the labeler)
    orig_data,     \* history: the rows as the caller supplied them before the first call
    ret,           \* the labeler's latest return value (headers, data, temp), as of its return
    prev,          \* the return value of the call before it
    written,       \* the output file: header row and data rows
    printed,       \* whether output_filepath was printed (temp was true)
    runs,          \* number of labeler calls so far
    \* ---- SpecMain: main()
    csv_filelist,  \* the files found, in list order
    file_no,       \* position of the next file of the scan loop
    model_data,    \* serial number -> accumulated rows
    model_header,  \* header of the last file that held a matching row
    saved,         \* serial number -> written file
    main_pc,       \* "scan" | "saved" | "aborted" (an exception left main)
    \* ---- SpecAttrs: __manufacturer_reported_params
    smart_attr_to_drive_list_map,
    drive_attributes,
    manufacturer_reported_attributes,
    attr_pc

labelVars == <<header, sno_data, orig_data, ret, prev, written, printed, runs>>
mainVars == <<csv_filelist, file_no, model_data, model_header, saved, main_pc>>
attrVars == <<smart_attr_to_drive_list_map, drive_attributes,
              manufacturer_reported_attributes, attr_pc>>
vars == <<labelVars, mainVars, attrVars>>

-----------------------------------------------------------------------------
(* Bounds of the model *)

MaxRows == 3
MaxRuns == 2

-----------------------------------------------------------------------------
(* Dates: datetime.strptime / strftime with DATE_FORMAT '%Y-%m-%d'.        *)

Str(m, d, pad) == [k |-> "str", m |-> m, d |-> d, pad |-> pad]
Datetime(n) == [k |-> "datetime", m |-> 0, d |-> n, pad |-> FALSE]
None == [k |-> "None", m |-> 0, d |-> 0, pad |-> FALSE]

\* calendar of the (non-leap) year 2015
DaysInMonth(m) == IF m = 2 THEN 28 ELSE IF m \in {4, 6, 9, 11} THEN 30 ELSE 31

RECURSIVE DaysBeforeMonth(_)
DaysBeforeMonth(m) == IF m <= 1 THEN 0 ELSE DaysBeforeMonth(m - 1) + DaysInMonth(m - 1)

MonthOf(n) == CHOOSE m \in 1..12 : DaysBeforeMonth(m) < n /\ n <= DaysBeforeMonth(m) + DaysInMonth(m)

\* __parse_date: strptime accepts one- or two-digit month and day; any
\* exception (bad text, day out of range, a non-string argument) gives None.
parse_date(date_str) ==
    IF /\ date_str.k = "str"
       /\ date_str.m \in 1..12
       /\ date_str.d \in 1..DaysInMonth(date_str.m)
    THEN Datetime(DaysBeforeMonth(date_str.m) + date_str.d)
    ELSE None

\* __format_date: strftime writes zero-padded month and day; any exception
\* (the argument is None or not a datetime) gives None.
format_date(date_obj) ==
    IF date_obj.k = "datetime"
    THEN Str(MonthOf(date_obj.d), date_obj.d - DaysBeforeMonth(MonthOf(date_obj.d)), TRUE)
    ELSE None

-----------------------------------------------------------------------------
(* The labeler                                                             *)

CSV_DATE_COL == "date"
CSV_FAILURE_COL == "failure"

\* timedelta(30), timedelta(15), timedelta(1), in days
fail_30 == 30
fail_15 == 15
fail_1 == 1

\* list.index: position of the first occurrence (1-based here)
Index(seq, v) == CHOOSE i \in 1..Len(seq) : seq[i] = v /\ \A j \in 1..(i - 1) : seq[j] # v

\* int(s) of a CSV text cell
IntParses(s) == s \in {"0", "1"}
IntOf(s) == IF s = "1" THEN 1 ELSE 0

\* The lambda of lines 243-247 applied to row x for the row datum and a
\* horizon h: it raises when datum's date is None (None + timedelta), when
\* x's date is None (None <= datetime), or when the date test passes and
\* int() of x's failure cell raises.
LambdaRaises(x, datum, h, date_index, fail_index) ==
    \/ datum[date_index].k # "datetime"
    \/ x[date_index].k # "datetime"
    \/ /\ x[date_index].d <= datum[date_index].d + h
       /\ ~IntParses(x[fail_index])

LambdaValue_strict(x, datum, h, date_index, fail_index) ==
    /\ x[date_index].d < datum[date_index].d + h
    /\ IntOf(x[fail_index]) = 1

LambdaValue(x, datum, h, date_index, fail_index) ==
    /\ x[date_index].d <= datum[date_index].d + h
    /\ IntOf(x[fail_index]) = 1

\* filter(lambda, data[i:]) is eager: one raising element makes the call raise
FilterRaises(datum, h, tail, date_index, fail_index) ==
    \E j \in 1..Len(tail) : LambdaRaises(tail[j], datum, h, date_index, fail_index)

\* bool(filter(lambda, data[i:]))
FilterBool(datum, h, tail, date_index, fail_index) ==
    Len(SelectSeq(tail, LAMBDA x : LambdaValue(x, datum, h, date_index, fail_index))) > 0

\* the horizons in the order the three appends use them
Horizons_ascending == <<fail_1, fail_15, fail_30>>

Horizons == <<fail_30, fail_15, fail_1>>

\* The try block of one loop iteration: the appends made before the first
\* exception, and whether temp was set.  Applied with n = 1.
RECURSIVE TryAppends(_, _, _, _, _)
TryAppends(datum, tail, n, date_index, fail_index) ==
    IF n > Len(Horizons) THEN datum
    ELSE IF FilterRaises(datum, Horizons[n], tail, date_index, fail_index) THEN datum
    ELSE TryAppends(Append(datum, FilterBool(datum, Horizons[n], tail, date_index, fail_index)),
                    tail, n + 1, date_index, fail_index)

\* "if datum[-1]: temp = True" runs right after the first append, when
\* that append was reached
TempAfter_overwrite(temp, before, after) ==
    IF Len(after) > Len(before) THEN after[Len(before) + 1] ELSE temp

TempAfter(temp, before, after) ==
    IF Len(after) > Len(before) /\ after[Len(before) + 1] THEN TRUE ELSE temp

\* the finally block: the row's date is formatted back to text
Finally(datum, date_index) == [datum EXCEPT ![date_index] = format_date(@)]

\* The second loop (lines 240-252) from position i on; data[i:] is
\* SubSeq(data, i, Len(data)).  Rows before i are already formatted.
RECURSIVE LabelLoop(_, _, _, _, _)
LabelLoop_dropFailed(data, i, temp, date_index, fail_index) ==
    IF i > Len(data) THEN [data |-> data, temp |-> temp]
    ELSE LET tail == SubSeq(data, i, Len(data))
             after == TryAppends(data[i], tail, 1, date_index, fail_index)
         IN  IF Len(after) = Len(data[i])
             THEN LabelLoop([j \in 1..(Len(data) - 1) |->
                                IF j < i THEN data[j] ELSE data[j + 1]],
                            i, temp, date_index, fail_index)
             ELSE LabelLoop([data EXCEPT ![i] = Finally(after, date_index)], i + 1,
                            TempAfter(temp, data[i], after), date_index, fail_index)

LabelLoop(data, i, temp, date_index, fail_index) ==
    IF i > Len(data) THEN [data |-> data, temp |-> temp]
    ELSE LET tail == SubSeq(data, i, Len(data))
             after == TryAppends(data[i], tail, 1, date_index, fail_index)
         IN  LabelLoop([data EXCEPT ![i] = Finally(after, date_index)], i + 1,
                       TempAfter(temp, data[i], after), date_index, fail_index)

\* headers = list(headers); headers.extend([...]): the caller's list is
\* copied, so the caller keeps what it passed.
CallerHeaders(headers) == headers

\* __update_data_to_include_classfication_output_labels(headers, data):
\* the returned (headers, data, temp).  data = list(data) copies the outer
\* list only: the returned rows are the caller's row objects, mutated.
UpdateLabels(headers, data) ==
    LET hs == headers \o <<"op_fail_30", "op_fail_15", "op_fail_1">>
        date_index == Index(hs, CSV_DATE_COL)
        fail_index == Index(hs, CSV_FAILURE_COL)
        parsed == [j \in 1..Len(data) |->
                      [data[j] EXCEPT ![date_index] = parse_date(@)]]
        r == LabelLoop(parsed, 1, FALSE, date_index, fail_index)
    IN  [headers |-> hs, data |-> r.data, temp |-> r.temp]

-----------------------------------------------------------------------------
(* Spec: inputs and actions                                                *)

\* header built by __read_csv_data_for_drive_model: date, failure, SMART attributes
OUTPUT_HEADER == <<"date", "failure", "SMART 5">>

\* date texts: 2015-01-01, 2015-1-2, 2015-01-03, 2015-01-17, 2015-02-02,
\* and 2015-02-30, which does not parse
DateTexts == {Str(1, 1, TRUE), Str(1, 2, FALSE), Str(1, 3, TRUE),
              Str(1, 17, TRUE), Str(2, 2, TRUE), Str(2, 30, TRUE)}

\* failure cells: "0", "1", and (on one date) a cell int() rejects
FailureTexts == {"0", "1"}

InputRows == {<<dt, f, "100">> : dt \in DateTexts, f \in FailureTexts}
                 \cup {<<Str(1, 3, TRUE), "x", "100">>}

InputData == UNION {[1..n -> InputRows] : n \in 0..MaxRows}

NoReturn == [headers |-> <<>>, data |-> <<>>, temp |-> FALSE]
NoFile == [header |-> <<>>, rows |-> <<>>]

MainIdle ==
    /\ csv_filelist = <<>>
    /\ file_no = 0
    /\ model_data = <<>>
    /\ model_header = <<>>
    /\ saved = <<>>
    /\ main_pc = "idle"

AttrsIdle ==
    /\ smart_attr_to_drive_list_map = <<>>
    /\ drive_attributes = <<>>
    /\ manufacturer_reported_attributes = <<>>
    /\ attr_pc = "idle"

Init ==
    /\ header = OUTPUT_HEADER
    /\ sno_data \in InputData
    /\ orig_data = sno_data
    /\ ret = NoReturn
    /\ prev = NoReturn
    /\ written = NoFile
    /\ printed = FALSE
    /\ runs = 0
    /\ MainIdle
    /\ AttrsIdle

\* A caller invokes the labeler on (header, sno_data).
CallLabeler ==
    /\ runs < MaxRuns
    /\ ret' = UpdateLabels(header, sno_data)
    /\ sno_data' = ret'.data
    /\ header' = CallerHeaders(header)
    /\ prev' = ret
    /\ runs' = runs + 1
    /\ UNCHANGED <<orig_data, written, printed>>
    /\ UNCHANGED <<mainVars, attrVars>>

\* what __save_csv_file writes: writerow(temp_header); writerows(sno_data)
WrittenFile(r) == [header |-> r.headers, rows |-> r.data]

\* The body of __save_csv_file's loop for one serial number.
SaveCsvFile ==
    /\ runs < MaxRuns
    /\ written = NoFile
    /\ ret' = UpdateLabels(header, sno_data)
    /\ sno_data' = ret'.data
    /\ header' = CallerHeaders(header)
    /\ printed' = ret'.temp
    /\ written' = WrittenFile(ret')
    /\ prev' = ret
    /\ runs' = runs + 1
    /\ UNCHANGED orig_data
    /\ UNCHANGED <<mainVars, attrVars>>

Next == CallLabeler \/ SaveCsvFile

Spec == Init /\ [][Next]_vars

-----------------------------------------------------------------------------
(* GetDriveAttributes: manufacturer of a drive model                       *)

LowerChar(c) ==
    CASE c = "H" -> "h" [] c = "G" -> "g" [] c = "S" -> "s" [] c = "T" -> "t"
      [] c = "W" -> "w" [] c = "D" -> "d" [] c = "X" -> "x"
      [] OTHER -> c

\* str.lower()
Lower(name) == [i \in 1..Len(name) |-> LowerChar(name[i])]

\* str.startswith(prefix)
StartsWith(name, prefix) ==
    Len(prefix) <= Len(name) /\ SubSeq(name, 1, Len(prefix)) = prefix

DRIVE_NAME_MANUFAC_MAP ==
    [mfg \in {"HGST", "Hitachi", "Samsung", "Seagate", "Toshiba", "Western Digital"} |->
        CASE mfg = "HGST" -> <<"h", "g", "s", "t">>
          [] mfg = "Hitachi" -> <<"h", "i", "t", "a", "c", "h", "i">>
          [] mfg = "Samsung" -> <<"s", "a", "m", "s", "u", "n", "g">>
          [] mfg = "Seagate" -> <<"s", "t">>
          [] mfg = "Toshiba" -> <<"t", "o", "s", "h", "i", "b", "a">>
          [] mfg = "Western Digital" -> <<"w", "d">>]

UNIDENTIFIED_MANUFACTURER == "Unidentified"

\* __get_drive_manufacturer: no signature is a prefix of another, so the
\* dictionary's iteration order does not matter
get_drive_manufacturer(drive_model) ==
    LET hits == {mfg \in DOMAIN DRIVE_NAME_MANUFAC_MAP :
                    StartsWith(Lower(drive_model), DRIVE_NAME_MANUFAC_MAP[mfg])}
    IN  IF hits = {} THEN UNIDENTIFIED_MANUFACTURER ELSE CHOOSE mfg \in hits : TRUE

-----------------------------------------------------------------------------
(* ProcessData.main for one drive model                                    *)

CSV_MODEL_COL == "model"
CSV_SERIAL_NO_COL == "serial_number"

\* csv_filelist[0:500]
FILE_SLICE == 500

\* the drive model main is processing, and the SMART attributes
\* DRIVE_ATTRS lists for its manufacturer
DRIVE_MODEL == <<"H", "G", "S", "T", "1">>
SMART_ATTRS == <<"SMART 5">>

\* __get_smart_attr_header_val: "smart_<first number>_raw", or the
\* description itself when it holds no number
get_smart_attr_header_val(smart_attr_description) ==
    CASE smart_attr_description = "SMART 5" -> "smart_5_raw"
      [] smart_attr_description = "SMART 1" -> "smart_1_raw"
      [] OTHER -> smart_attr_description

Has(seq, v) == \E i \in 1..Len(seq) : seq[i] = v

\* the columns __read_csv_data_for_drive_model looks up with header_row.index
NeededColumns ==
    {get_smart_attr_header_val(SMART_ATTRS[i]) : i \in 1..Len(SMART_ATTRS)}
        \cup {CSV_DATE_COL, CSV_FAILURE_COL, CSV_MODEL_COL, CSV_SERIAL_NO_COL}

\* header_row.index raises ValueError (lines 136, 163, 166, 167)
ReadRaises(file) == \E c \in NeededColumns : ~Has(file.header, c)

\* output_header (lines 160-161)
OutputHeader == <<CSV_DATE_COL, CSV_FAILURE_COL>> \o SMART_ATTRS

\* output_header_indices (lines 163-164)
OutputHeaderIndices(header_row) ==
    <<Index(header_row, CSV_DATE_COL), Index(header_row, CSV_FAILURE_COL)>>
        \o [i \in 1..Len(SMART_ATTRS) |->
               Index(header_row, get_smart_attr_header_val(SMART_ATTRS[i]))]

SERIALS == {"S1", "S2"}

\* A dictionary serial number -> list is a function on SERIALS; a key is
\* present iff its list is not empty (a key is only ever added together
\* with its first row).
EmptyDict == [s \in SERIALS |-> <<>>]
Keys(dict) == {s \in SERIALS : dict[s] # <<>>}

\* the row loop of __read_csv_data_for_drive_model (lines 169-180) from row k on
RECURSIVE ReadRows(_, _, _)
ReadRows(file, k, processed_result) ==
    IF k > Len(file.rows) THEN processed_result
    ELSE LET datarow == file.rows[k]
             serial_no == datarow[Index(file.header, CSV_SERIAL_NO_COL)]
             ind == OutputHeaderIndices(file.header)
             data == [i \in 1..Len(ind) |-> datarow[ind[i]]]
         IN  IF Lower(datarow[Index(file.header, CSV_MODEL_COL)]) # Lower(DRIVE_MODEL)
             THEN ReadRows(file, k + 1, processed_result)
             ELSE ReadRows(file, k + 1,
                           [processed_result EXCEPT ![serial_no] = Append(@, data)])

\* lines 312-316: a new serial number takes the file's list, a known one is extended
Accumulate_overwrite(acc, csv_drive_model_data) ==
    [s \in SERIALS |->
        IF csv_drive_model_data[s] = <<>> THEN acc[s] ELSE csv_drive_model_data[s]]

Accumulate(acc, csv_drive_model_data) ==
    [s \in SERIALS |->
        IF csv_drive_model_data[s] = <<>> THEN acc[s]
        ELSE IF acc[s] = <<>> THEN csv_drive_model_data[s]
        ELSE acc[s] \o csv_drive_model_data[s]]

\* ---- inputs of SpecMain
MaxFiles == 2
MaxRawRows == 3

FULL_HEADER == <<"date", "serial_number", "model", "failure", "smart_5_raw">>
\* a file that has no smart_5_raw column
OLD_HEADER == <<"date", "serial_number", "model", "failure", "smart_1_raw">>

RawRows ==
    { <<Str(1, 1, TRUE), "S1", <<"H", "G", "S", "T", "1">>, "0", "100">>,
      <<Str(1, 2, FALSE), "S1", <<"h", "g", "s", "t", "1">>, "1", "100">>,
      <<Str(1, 1, TRUE), "S2", <<"H", "G", "S", "T", "1">>, "0", "100">>,
      <<Str(1, 3, TRUE), "S2", <<"H", "G", "S", "T", "1">>, "1", "100">>,
      <<Str(1, 1, TRUE), "S1", <<"W", "D", "1">>, "0", "100">> }

\* a file list: a row sequence cut into n files at the positions cuts
MakeFiles(all, cuts, hdrs) ==
    [f \in 1..Len(hdrs) |->
        [header |-> hdrs[f],
         rows |-> SubSeq(all,
                         (IF f = 1 THEN 0 ELSE cuts[f - 1]) + 1,
                         IF f = Len(hdrs) THEN Len(all) ELSE cuts[f])]]

\* the ways to cut a sequence of len rows into n consecutive files
Cuts(n, len) ==
    {c \in [1..(n - 1) -> 0..len] : \A i \in 1..(n - 2) : c[i] <= c[i + 1]}

LabelIdle ==
    /\ header = <<>>
    /\ sno_data = <<>>
    /\ orig_data = <<>>
    /\ ret = NoReturn
    /\ prev = NoReturn
    /\ written = NoFile
    /\ printed = FALSE
    /\ runs = 0

InitMain ==
    /\ \E n \in 1..MaxFiles, k \in 0..MaxRawRows :
          \E all \in [1..k -> RawRows], hdrs \in [1..n -> {FULL_HEADER, OLD_HEADER}] :
              \E cuts \in Cuts(n, k) :
                  csv_filelist = MakeFiles(all, cuts, hdrs)
    /\ file_no = 1
    /\ model_data = EmptyDict
    /\ model_header = <<>>
    /\ saved = [s \in SERIALS |-> NoFile]
    /\ main_pc = "scan"
    /\ LabelIdle
    /\ AttrsIdle

Min(a, b) == IF a < b THEN a ELSE b

\* the files the loop of line 306 visits
Scanned == SubSeq(csv_filelist, 1, Min(Len(csv_filelist), FILE_SLICE))

\* One iteration of the loop over csv_filelist (lines 306-318).  An
\* exception of __read_csv_data_for_drive_model is not caught by main.
ReadCsvFile ==
    /\ main_pc = "scan"
    /\ file_no <= Len(Scanned)
    /\ LET file == Scanned[file_no]
           csv_drive_model_data == ReadRows(file, 1, EmptyDict)
       IN  IF ReadRaises(file)
           THEN /\ main_pc' = "aborted"
                /\ UNCHANGED <<file_no, model_data, model_header>>
           ELSE /\ model_data' = Accumulate(model_data, csv_drive_model_data)
                /\ model_header' = IF Keys(csv_drive_model_data) # {}
                                   THEN OutputHeader ELSE model_header
                /\ file_no' = file_no + 1
                /\ UNCHANGED main_pc
    /\ UNCHANGED <<csv_filelist, saved>>
    /\ UNCHANGED <<labelVars, attrVars>>

\* __save_csv_file(model_data, model_header, drive_model) after the loop:
\* one file per serial number; the labeler mutates the accumulated rows.
SaveCsvFiles ==
    /\ main_pc = "scan"
    /\ file_no > Len(Scanned)
    /\ saved' = [s \in SERIALS |->
                    IF s \in Keys(model_data)
                    THEN WrittenFile(UpdateLabels(model_header, model_data[s]))
                    ELSE NoFile]
    /\ model_data' = [s \in SERIALS |->
                        IF s \in Keys(model_data)
                        THEN UpdateLabels(model_header, model_data[s]).data
                        ELSE <<>>]
    /\ main_pc' = "saved"
    /\ UNCHANGED <<csv_filelist, file_no, model_header>>
    /\ UNCHANGED <<labelVars, attrVars>>

NextMain == ReadCsvFile \/ SaveCsvFiles

SpecMain == InitMain /\ [][NextMain]_vars

-----------------------------------------------------------------------------
(* GetDriveAttributes.__manufacturer_reported_params                       *)

ATTR_NAMES == {"SMART 1", "SMART 5"}

DRIVES == { <<"H", "G", "S", "T", "1">>, <<"H", "G", "S", "T", "2">>,
            <<"H", "G", "S", "T", "3">>, <<"W", "D", "1">> }

MFG_NAMES == DOMAIN DRIVE_NAME_MANUFAC_MAP \cup {UNIDENTIFIED_MANUFACTURER}

\* the orders a dictionary may iterate a key set in
Orders(S) == {o \in [1..Cardinality(S) -> S] : \A i, j \in 1..Cardinality(S) : o[i] = o[j] => i = j}

ToSet(seq) == {seq[i] : i \in 1..Len(seq)}

\* First loop (lines 133-142): drive_attributes[mfg][drive] is the list of
\* the attributes whose drive list names the drive, in the order attr_order
\* in which the attribute dictionary is iterated.  A drive is a key of
\* drive_attributes[mfg] iff its list is not empty.
DriveAttributes(attr_map, attr_order) ==
    [mfg \in MFG_NAMES |->
        [drive \in DRIVES |->
            IF get_drive_manufacturer(drive) = mfg
            THEN SelectSeq(attr_order, LAMBDA attr : drive \in ToSet(attr_map[attr]))
            ELSE <<>>]]

DrivesOf(drive_attrs, mfg) == {drive \in DRIVES : drive_attrs[mfg][drive] # <<>>}

\* Second loop (lines 147-158) for one manufacturer, over its drives in the
\* order drive_order, from position k on; st holds mfg_attrs,
\* mfg_reports_same_attrs and uncommon_attributes.
RECURSIVE CompareDrives(_, _, _, _)
CompareDrives(drives, drive_order, k, st) ==
    IF k > Len(drive_order) THEN st
    ELSE LET attrs == drives[drive_order[k]]
             mfg_attrs == IF st.mfg_attrs = <<>> THEN attrs ELSE st.mfg_attrs
             same == ToSet(mfg_attrs) = ToSet(attrs)
         IN  CompareDrives(drives, drive_order, k + 1,
                 [mfg_attrs |-> mfg_attrs,
                  mfg_reports_same_attrs |-> same,
                  uncommon_attributes |->
                      IF same THEN st.uncommon_attributes
                      ELSE st.uncommon_attributes
                               \cup (ToSet(mfg_attrs) \ ToSet(attrs))
                               \cup (ToSet(attrs) \ ToSet(mfg_attrs))])

\* the entry stored at lines 160-163
ReportedParams(drives, drive_order) ==
    LET st == CompareDrives(drives, drive_order, 1,
                  [mfg_attrs |-> <<>>, mfg_reports_same_attrs |-> TRUE,
                   uncommon_attributes |-> {}])
    IN  [same_attributes |-> st.mfg_reports_same_attrs,
         uncommon_attributes |-> st.uncommon_attributes]

\* the drive lists of the scraped page: each attribute names some of the
\* drives, in the page's order
DRIVE_SEQ == << <<"H", "G", "S", "T", "1">>, <<"H", "G", "S", "T", "2">>,
                <<"H", "G", "S", "T", "3">>, <<"W", "D", "1">> >>

DriveLists == {SelectSeq(DRIVE_SEQ, LAMBDA drive : drive \in S) : S \in SUBSET DRIVES}

InitAttrs ==
    /\ smart_attr_to_drive_list_map \in [ATTR_NAMES -> DriveLists]
    /\ drive_attributes = <<>>
    /\ manufacturer_reported_attributes = <<>>
    /\ attr_pc = "start"
    /\ LabelIdle
    /\ MainIdle

\* __manufacturer_reported_params(smart_attr_to_drive_list_map).  The
\* runtime chooses the iteration orders of the dictionaries: attr_order for
\* the attribute dictionary, and for each manufacturer the order in which
\* dict_order lists its drives.
ManufacturerReportedParams ==
    /\ attr_pc = "start"
    /\ \E attr_order \in Orders(ATTR_NAMES), dict_order \in Orders(DRIVES) :
          LET da == DriveAttributes(smart_attr_to_drive_list_map, attr_order)
              present == {mfg \in MFG_NAMES : DrivesOf(da, mfg) # {}}
          IN  /\ drive_attributes' = da
              /\ manufacturer_reported_attributes' =
                    [mfg \in present |->
                        ReportedParams(da[mfg],
                            SelectSeq(dict_order,
                                      LAMBDA drive : drive \in DrivesOf(da, mfg)))]
    /\ attr_pc' = "done"
    /\ UNCHANGED smart_attr_to_drive_list_map
    /\ UNCHANGED <<labelVars, mainVars>>

NextAttrs == ManufacturerReportedParams

SpecAttrs == InitAttrs /\ [][NextAttrs]_vars

-----------------------------------------------------------------------------
(* Properties of the labeler, checked under Spec                           *)

DateIdx == Index(OUTPUT_HEADER, "date")
FailIdx == Index(OUTPUT_HEADER, "failure")

\* the rows as they were passed to the latest call
Before == IF runs >= 2 THEN prev.data ELSE orig_data

Rows == 1..Len(ret.data)

\* the calendar date of row j as the latest call parsed it
DateOf(j) == parse_date(Before[j][DateIdx])
Known(j) == DateOf(j).k = "datetime"
Failed(j) == Before[j][FailIdx] = "1"

\* the latest call appended all three labels to row j
Labelled(j) == Len(ret.data[j]) = Len(Before[j]) + 3

\* the n-th label the latest call appended: 1 op_fail_30, 2 op_fail_15, 3 op_fail_1
Label(j, n) == ret.data[j][Len(Before[j]) + n]

HorizonDays == <<30, 15, 1>>

AllFlagsParse == \A j \in 1..Len(Before) : Before[j][FailIdx] \in {"0", "1"}

\* C1 (as claimed): for a row o with a parsed date, each label the labeler
\* computed for horizon h is true iff some row at o's position or later has
\* failure flag 1 and a date in the closed interval [o.date, o.date + h]; a
\* failed row later in position but dated before o.date does not count.
C1_ClosedInterval ==
    runs >= 1 =>
        \A j \in Rows : (Known(j) /\ Labelled(j)) =>
            \A n \in 1..3 :
                Label(j, n) <=>
                    \E x \in j..Len(Before) :
                        /\ Failed(x)
                        /\ Known(x)
                        /\ DateOf(j).d <= DateOf(x).d
                        /\ DateOf(x).d <= DateOf(j).d + HorizonDays[n]

\* C2 (as claimed): a row whose date does not parse affects only its own
\* labels: every other row o with a parsed date receives all three labels,
\* each equal to (some row x at o's position or later has failure flag 1, a
\* defined date, and x.date <= o.date + h); rows of unknown date in the
\* scanned tail are skipped.
C2_UnknownDateSkipped ==
    (runs >= 1 /\ AllFlagsParse) =>
        \A j \in Rows : Known(j) =>
            /\ Labelled(j)
            /\ \A n \in 1..3 :
                  Label(j, n) <=>
                      \E x \in j..Len(Before) :
                          /\ Failed(x)
                          /\ Known(x)
                          /\ DateOf(x).d <= DateOf(j).d + HorizonDays[n]

\* C3: monotonicity across horizons: for every labelled row, op_fail_1
\* implies op_fail_15 and op_fail_15 implies op_fail_30, whatever the order
\* of the rows.
C3_Monotone ==
    runs >= 1 =>
        \A j \in Rows : Labelled(j) =>
            /\ Label(j, 3) => Label(j, 2)
            /\ Label(j, 2) => Label(j, 1)

\* a labelled row whose three labels differ, in a batch that is not in date order
C3_Witness ==
    /\ runs >= 1
    /\ \E j \in Rows : Labelled(j) /\ Label(j, 1) /\ ~Label(j, 3)
    /\ \E j \in Rows : Labelled(j) /\ Label(j, 2) /\ ~Label(j, 3)
    /\ \E j, x \in Rows : j < x /\ Known(j) /\ Known(x) /\ DateOf(x).d < DateOf(j).d

C5_NoSideEffects ==
    /\ runs >= 1 =>
          /\ header = OUTPUT_HEADER
          /\ Len(sno_data) = Len(orig_data)
          /\ \A j \in 1..Len(orig_data) :
                /\ Len(sno_data[j]) = Len(orig_data[j])
                /\ sno_data[j][DateIdx] = orig_data[j][DateIdx]
    /\ runs >= 2 => ret = prev

\* C6: a row with an unparseable date never aborts the labeler: the output
\* holds exactly one row per input row, in the same order, and each row whose
\* date failed to parse is emitted with a None date.
C6_UnparseableDateRow ==
    runs >= 1 =>
        /\ Len(ret.data) = Len(Before)
        /\ \A j \in 1..Len(Before) :
              /\ j <= Len(ret.data)
              /\ ret.data[j][FailIdx] = Before[j][FailIdx]
              /\ ret.data[j][3] = Before[j][3]
              /\ ret.data[j][DateIdx] = format_date(DateOf(j))
              /\ ~Known(j) => ret.data[j][DateIdx] = None

\* a first call on three rows whose middle row has an unparseable date text
C6_Witness ==
    /\ runs = 1
    /\ Len(orig_data) = 3
    /\ orig_data[2][DateIdx].k = "str"
    /\ ~Known(2)
    /\ Known(1) /\ Known(3)
    /\ ret.data[2][DateIdx] = None
    /\ Labelled(3)

\* the scenario of C8: three consecutive calendar days given in date order,
\* the last one failed
Scenario ==
    /\ runs = 1
    /\ Len(orig_data) = 3
    /\ \A j \in 1..3 : Known(j)
    /\ DateOf(2).d = DateOf(1).d + 1
    /\ DateOf(3).d = DateOf(2).d + 1
    /\ orig_data[1][FailIdx] = "0"
    /\ orig_data[2][FailIdx] = "0"
    /\ orig_data[3][FailIdx] = "1"

\* C8 (as claimed): in the scenario op_fail_1 is false for day1, false for
\* day2 and true for day3.
C8_Original ==
    Scenario =>
        /\ \A j \in 1..3 : Labelled(j)
        /\ ~Label(1, 3)
        /\ ~Label(2, 3)
        /\ Label(3, 3)

\* C8 (amended): in the scenario op_fail_1 is false for day1, true for day2
\* (day3 <= day2 + 1 day) and true for day3.
C8_Amended ==
    Scenario =>
        /\ \A j \in 1..3 : Labelled(j)
        /\ ~Label(1, 3)
        /\ Label(2, 3)
        /\ Label(3, 3)

C8_Witness == Scenario /\ written # NoFile

-----------------------------------------------------------------------------
(* Properties of main, checked under SpecMain                              *)

\* all rows of the files 1..k, in scan order
RECURSIVE RowsOfFiles(_)
RowsOfFiles(k) == IF k = 0 THEN <<>> ELSE RowsOfFiles(k - 1) \o csv_filelist[k].rows

Matches(row, s) ==
    /\ Lower(row[3]) = <<"h", "g", "s", "t", "1">>
    /\ row[2] = s

RECURSIVE Project(_)
Project(rows) ==
    IF rows = <<>> THEN <<>>
    ELSE <<<<Head(rows)[1], Head(rows)[4], Head(rows)[5]>>>> \o Project(Tail(rows))

ExpectedRows(s, k) == Project(SelectSeq(RowsOfFiles(k), LAMBDA row : Matches(row, s)))

\* C7 (as claimed): a column missing from one file's header is fatal only
\* for that file: main skips the file, reads the remaining files and writes
\* the output; no such error aborts the whole run.
C7_MissingColumnSkipsFile ==
    /\ main_pc # "aborted"
    /\ main_pc = "saved" =>
          \A k \in 1..Len(csv_filelist) : \A j \in 1..Len(csv_filelist[k].rows) :
              (/\ Has(csv_filelist[k].header, "smart_5_raw")
               /\ Lower(csv_filelist[k].rows[j][3]) = <<"h", "g", "s", "t", "1">>)
                  => saved[csv_filelist[k].rows[j][2]] # NoFile

-----------------------------------------------------------------------------
(* Property of __manufacturer_reported_params, checked under SpecAttrs     *)

\* the set of attributes the page reports for a drive
AttrsOfDrive(drive) ==
    {attr \in ATTR_NAMES : drive \in ToSet(smart_attr_to_drive_list_map[attr])}

ListedDrives(mfg) ==
    {drive \in DRIVES : get_drive_manufacturer(drive) = mfg /\ AttrsOfDrive(drive) # {}}

\* C10 (as claimed): for every manufacturer of the result, same_attributes
\* is true iff all drives of the manufacturer report the same set of
\* attributes, whatever the iteration order; equivalently same_attributes is
\* true exactly when uncommon_attributes is empty.
C10_SameAttributes ==
    attr_pc = "done" =>
        \A mfg \in DOMAIN manufacturer_reported_attributes :
            /\ manufacturer_reported_attributes[mfg].same_attributes <=>
                  \A d1, d2 \in ListedDrives(mfg) : AttrsOfDrive(d1) = AttrsOfDrive(d2)
            /\ manufacturer_reported_attributes[mfg].same_attributes <=>
                  manufacturer_reported_attributes[mfg].uncommon_attributes = {}

====
